---- MODULE Spec2Model ----
(***************************************************************************)
(* Model of gvcf_aggregator (starling_common/gvcf_aggregator.cpp): the     *)
(* aggregator that merges the site stream and the indel stream into one    *)
(* position ordered gVCF record stream.                                    *)
(*                                                                         *)
(* Every handler of the class is an operator from an aggregator state (a   *)
(* record holding the object's fields, the output stream and the history   *)
(* fields the properties read) to the state it leaves; the actions apply   *)
(* the public entry points add_site, add_indel and the destructor.         *)
(***************************************************************************)
EXTENDS Integers, Sequences, FiniteSets, TLC

\* ------------------------------------------------------------- bounds
\* the report range is [0, EndPos]; calls are submitted at positions in it
EndPos == 2
\* number of add_site / add_indel calls made before the aggregator is destroyed
MaxCalls == 3

Positions == 0..EndPos

Min2(a, b) == IF a < b THEN a ELSE b
Max2(a, b) == IF a > b THEN a ELSE b

\* ------------------------------------------------------------- inputs
\* starling_options as read by this file: the two optional filters and the
\* block non-reference fraction (a rational nonref_num/nonref_den)
OptFiltered ==
    [is_gvcf_min_gqx |-> TRUE, gvcf_min_gqx |-> 2,
     is_gvcf_max_depth |-> TRUE, gvcf_max_depth |-> 5,
     nonref_num |-> 1, nonref_den |-> 5]

\* the runs are made with both filters switched on: sites and indels on
\* either side of each threshold are among the inputs below
Opts == {OptFiltered}

\* site_info as the genotype caller hands it over (before add_site_modifiers).
\* Genotypes are "ref" (homozygous reference, equal to dgt.ref_gt), "het"
\* and "hom" (homozygous non-reference).
SiteRef ==
    [ref_known |-> TRUE, is_snp |-> FALSE, ref_count |-> 4,
     n_used_calls |-> 4, n_unused_calls |-> 0,
     genome_gt |-> "ref", poly_gt |-> "ref",
     genome_q |-> 3, poly_q |-> 3, snp_qphred |-> 0]

SiteLow ==
    [ref_known |-> TRUE, is_snp |-> FALSE, ref_count |-> 4,
     n_used_calls |-> 4, n_unused_calls |-> 2,
     genome_gt |-> "ref", poly_gt |-> "ref",
     genome_q |-> 1, poly_q |-> 3, snp_qphred |-> 0]

SiteSnp ==
    [ref_known |-> TRUE, is_snp |-> TRUE, ref_count |-> 2,
     n_used_calls |-> 4, n_unused_calls |-> 0,
     genome_gt |-> "het", poly_gt |-> "het",
     genome_q |-> 3, poly_q |-> 2, snp_qphred |-> 3]

SiteHom ==
    [ref_known |-> TRUE, is_snp |-> TRUE, ref_count |-> 0,
     n_used_calls |-> 4, n_unused_calls |-> 0,
     genome_gt |-> "hom", poly_gt |-> "hom",
     genome_q |-> 2, poly_q |-> 3, snp_qphred |-> 2]

SiteKinds == {SiteRef, SiteLow, SiteSnp, SiteHom}

\* an indel call: indel_key (delete/insert length, breakpoint flag), the
\* diploid indel genotype and its qualities, the sample depth
IndelDelHet ==
    [allele |-> "delhet", delete_length |-> 2, insert_length |-> 0,
     is_breakpoint |-> FALSE, max_gt |-> "HET",
     indel_qphred |-> 3, max_gt_qphred |-> 2, depth |-> 4]

IndelInsHet ==
    [allele |-> "inshet", delete_length |-> 0, insert_length |-> 1,
     is_breakpoint |-> FALSE, max_gt |-> "HET",
     indel_qphred |-> 1, max_gt_qphred |-> 3, depth |-> 6]

IndelDelHom ==
    [allele |-> "delhom", delete_length |-> 1, insert_length |-> 0,
     is_breakpoint |-> FALSE, max_gt |-> "HOM",
     indel_qphred |-> 2, max_gt_qphred |-> 1, depth |-> 4]

IndelBreak ==
    [allele |-> "break", delete_length |-> 0, insert_length |-> 0,
     is_breakpoint |-> TRUE, max_gt |-> "HET",
     indel_qphred |-> 3, max_gt_qphred |-> 3, depth |-> 4]

IndelNone ==
    [allele |-> "noindel", delete_length |-> 2, insert_length |-> 0,
     is_breakpoint |-> FALSE, max_gt |-> "NOINDEL",
     indel_qphred |-> 3, max_gt_qphred |-> 3, depth |-> 4]

IndelKinds == {IndelDelHet, IndelInsHet, IndelDelHom, IndelBreak, IndelNone}

\* What the build can do when modify_overlap_indel_record asks the reference
\* for a substring of negative (wrapped) length and add_cigar_to_ploidy then
\* writes past the ploidy vector: abort, or carry on with a trailing sequence
\* of some length and the stray writes lost.
UBOutcomes == {"abort", "trail0", "trail1"}

\* ------------------------------------------------------------- sites
\* site_modifiers::clear(): no filters, no modified genotype
smod_clear ==
    [is_unknown |-> FALSE, is_used_covered |-> FALSE, is_covered |-> FALSE,
     max_gt |-> "ref", gqx |-> 0, filters |-> {},
     modified_gt |-> "NONE", is_zero_ploidy |-> FALSE]

set_site_filters(opt, si) ==
    LET low == opt.is_gvcf_min_gqx /\ si.gqx < opt.gvcf_min_gqx
        high == opt.is_gvcf_max_depth
                /\ (si.n_used_calls + si.n_unused_calls) > opt.gvcf_max_depth
    IN [si EXCEPT !.filters = @ \cup (IF low THEN {"LowGQX"} ELSE {})
                                \cup (IF high THEN {"HighDepth"} ELSE {})]

\* set_site_gt is inlined: max_gt and gqx come from the same result_set
add_site_modifiers(opt, si) ==
    LET c == [smod_clear EXCEPT
                !.is_unknown = ~si.ref_known,
                !.is_used_covered = (si.n_used_calls # 0),
                !.is_covered = (si.n_used_calls # 0 \/ si.n_unused_calls # 0)]
        g == IF c.is_unknown
             THEN [c EXCEPT !.gqx = 0, !.max_gt = "ref"]
             ELSE IF si.genome_gt # si.poly_gt
             THEN [c EXCEPT !.gqx = 0, !.max_gt = si.genome_gt]
             ELSE IF si.genome_q < si.poly_q
             THEN [c EXCEPT !.gqx = si.genome_q, !.max_gt = si.genome_gt]
             ELSE [c EXCEPT !.gqx = si.poly_q, !.max_gt = si.poly_gt]
    IN set_site_filters(opt, g @@ si)

\* the aggregator's _empty_site: a default site_info (reference base 'N', no
\* calls) run through add_site_modifiers by the constructor
empty_site(opt) ==
    add_site_modifiers(opt,
        [pos |-> 0, synth |-> TRUE, ref_known |-> FALSE, is_snp |-> FALSE,
         ref_count |-> 0, n_used_calls |-> 0, n_unused_calls |-> 0,
         genome_gt |-> "ref", poly_gt |-> "ref",
         genome_q |-> 0, poly_q |-> 0, snp_qphred |-> 0])

get_empty_site(opt, pos) == [empty_site(opt) EXCEPT !.pos = pos]

\* reffrac + gvcf_block_max_nonref <= 1, on rationals; with n_used_calls = 0
\* the C++ quotient is NaN or infinite and the comparison is false
is_site_record_blockable(opt, si) ==
    IF si.is_snp THEN FALSE
    ELSE IF si.ref_known
            /\ si.n_used_calls > 0
            /\ si.ref_count * opt.nonref_den + opt.nonref_num * si.n_used_calls
                 <= si.n_used_calls * opt.nonref_den
         THEN FALSE
         ELSE TRUE

\* ------------------------------------------------------------- block
EmptyBlock == [count |-> 0, record |-> <<>>, gqx_min |-> 0]

\* block_site_record::test: the site continues the open block (next position,
\* same genotype / filter signature as the block's first member)
block_test(block, si) ==
    IF block.count = 0 THEN TRUE
    ELSE /\ si.pos = block.record[1].pos + block.count
         /\ si.filters = block.record[1].filters
         /\ si.max_gt = block.record[1].max_gt
         /\ si.is_unknown = block.record[1].is_unknown
         /\ si.is_covered = block.record[1].is_covered

\* block_site_record::join: the first member becomes the block's record, the
\* run length grows by one, the quality folds into the running minimum
block_join(block, si) ==
    IF block.count = 0
    THEN [count |-> 1, record |-> <<si>>, gqx_min |-> si.gqx]
    ELSE [block EXCEPT !.count = @ + 1, !.gqx_min = Min2(@, si.gqx)]

\* ------------------------------------------------------------- output
\* one line of the output stream; start is the 1-based POS column
SiteRecord(si) ==
    [type |-> "site", start |-> si.pos + 1, pos |-> si.pos, len |-> 1,
     gt |-> si.max_gt, modified_gt |-> si.modified_gt, gqx |-> si.gqx,
     qual |-> si.snp_qphred, filters |-> si.filters, synth |-> si.synth]

BlockRecord(block) ==
    [type |-> "block", start |-> block.record[1].pos + 1,
     pos |-> block.record[1].pos, len |-> block.count,
     gt |-> block.record[1].max_gt,
     modified_gt |-> block.record[1].modified_gt, gqx |-> block.gqx_min,
     qual |-> block.record[1].snp_qphred,
     filters |-> block.record[1].filters, synth |-> block.record[1].synth]

write_site_record(s, si) == [s EXCEPT !.out = Append(@, SiteRecord(si))]

\* write_block_site_record: emit the open block, if any, and reset it
write_block_site_record(s) ==
    IF s.block.count = 0 THEN s
    ELSE [s EXCEPT !.out = Append(@, BlockRecord(s.block)),
                   !.block = EmptyBlock]

queue_site_record(s, si) ==
    LET Join(s2) == [s2 EXCEPT !.block = block_join(@, si)]
        Test(s1) == Join(IF ~block_test(s1.block, si)
                         THEN write_block_site_record(s1)
                         ELSE s1)
    IN Test(IF ~is_site_record_blockable(s.opt, si)
            THEN write_site_record(write_block_site_record(s), si)
            ELSE s)

\* ------------------------------------------------------------- indels
is_het_indel(ii) == ii.max_gt = "HET"

is_no_indel(ii) == ii.max_gt = "NOINDEL"

\* indel_key::right_pos: the first position after the deleted reference bases
right_pos(ii) == ii.pos + ii.delete_length

\* indel_info::init: the call as submitted, with cleared modifiers; alt is
\* iri.vcf_indel_seq as (leading fill length, the call's allele, trailing fill)
indel_init(id, pos, ik) ==
    [id |-> id, pos |-> pos, gqx |-> 0, filters |-> {}, cigar |-> <<>>,
     ploidy |-> <<>>, is_overlap |-> FALSE,
     alt |-> [lead |-> 0, allele |-> ik.allele, trail |-> 0]] @@ ik

\* variant: only the first member's genotype is tested
is_simple_indel_overlap_first(indel_buffer) ==
    /\ Len(indel_buffer) = 2
    /\ is_het_indel(indel_buffer[1])

is_simple_indel_overlap(indel_buffer) ==
    /\ Len(indel_buffer) = 2
    /\ is_het_indel(indel_buffer[1])
    /\ is_het_indel(indel_buffer[2])

Seg(type, length) == [type |-> type, length |-> length]

get_hap_cigar(ik, lead, trail) ==
    (IF lead # 0 THEN <<Seg("MATCH", lead)>> ELSE <<>>)
    \o (IF ik.delete_length # 0 THEN <<Seg("DELETE", ik.delete_length)>> ELSE <<>>)
    \o (IF ik.insert_length # 0 THEN <<Seg("INSERT", ik.insert_length)>> ELSE <<>>)
    \o (IF trail # 0 THEN <<Seg("MATCH", trail)>> ELSE <<>>)

\* add_cigar_to_ploidy from segment i on, offset being the code's (0-based)
\* cursor: every match position at offset >= 0 is incremented. A position
\* past the vector is a stray write: oob records it, the vector keeps its size.
RECURSIVE cigar_to_ploidy(_, _, _, _)
cigar_to_ploidy(apath, i, offset, acc) ==
    IF i > Len(apath) THEN acc
    ELSE LET ps == apath[i] IN
         IF ps.type = "MATCH"
         THEN LET lo == Max2(offset, 0)
                  hi == offset + ps.length - 1
                  pl == [k \in 1..Len(acc.ploidy) |->
                            IF k - 1 >= lo /\ k - 1 <= hi
                            THEN acc.ploidy[k] + 1 ELSE acc.ploidy[k]]
              IN cigar_to_ploidy(apath, i + 1, offset + ps.length,
                    [ploidy |-> pl,
                     oob |-> acc.oob \/ (hi >= lo /\ hi >= Len(acc.ploidy))])
         ELSE IF ps.type = "DELETE"
         THEN cigar_to_ploidy(apath, i + 1, offset + ps.length, acc)
         ELSE cigar_to_ploidy(apath, i + 1, offset, acc)

add_cigar_to_ploidy(apath, acc) == cigar_to_ploidy(apath, 1, -1, acc)

add_indel_modifiers(opt, ii) ==
    LET gqx == Min2(ii.indel_qphred, ii.max_gt_qphred)
        low == opt.is_gvcf_min_gqx /\ gqx < opt.gvcf_min_gqx
        high == opt.is_gvcf_max_depth /\ ii.depth > opt.gvcf_max_depth
    IN [ii EXCEPT !.gqx = gqx,
                  !.filters = @ \cup (IF low THEN {"LowGQX"} ELSE {})
                                \cup (IF high THEN {"HighDepth"} ELSE {})]

\* variant: the CIGAR is built without the leading match
modify_single_indel_record_nolead(s) ==
    LET ii == s.indel_buffer[1]
        c == [ii EXCEPT !.cigar = get_hap_cigar(ii, 0, 0)]
    IN [s EXCEPT !.indel_buffer[1] = add_indel_modifiers(s.opt, c)]

modify_single_indel_record(s) ==
    LET ii == s.indel_buffer[1]
        c == [ii EXCEPT !.cigar = get_hap_cigar(ii, 1, 0)]
    IN [s EXCEPT !.indel_buffer[1] = add_indel_modifiers(s.opt, c)]

\* unsigned trail_len(_indel_end_pos - right_pos). A difference below zero
\* wraps to 2^32 + difference, which is kept here as the negative difference
\* and told apart by trail_wraps
trail_len(s, hap) == s.indel_end_pos - right_pos(s.indel_buffer[hap])

trail_wraps(s, hap) == s.indel_end_pos < right_pos(s.indel_buffer[hap])

\* one haplotype of modify_overlap_indel_record: its fill lengths, allele
\* and CIGAR. The leading fill is the reference from the first member's
\* position up to this member's; the trailing fill has trail_len bases, or,
\* when trail_len wrapped, whatever the reference accessor returns (u).
overlap_hap(s, hap, u) ==
    LET hi == s.indel_buffer[hap]
        lead == hi.pos - s.indel_buffer[1].pos
        trail == IF trail_wraps(s, hap)
                 THEN (IF u = "trail1" THEN 1 ELSE 0)
                 ELSE trail_len(s, hap)
    IN [hi EXCEPT !.alt = [lead |-> lead, allele |-> hi.alt.allele, trail |-> trail],
                  !.cigar = get_hap_cigar(hi, lead + 1, trail)]

\* variant: the genotype quality of the first member is kept as it is
modify_overlap_indel_record_keepq(s, u) ==
    LET size == s.indel_end_pos - s.indel_buffer[1].pos
        p0 == [ploidy |-> [k \in 1..size |-> 0], oob |-> FALSE]
        crash == u = "abort" /\ (trail_wraps(s, 1) \/ trail_wraps(s, 2))
        Shared(h1, h2, p2) ==
            [h1 EXCEPT !.is_overlap = TRUE,
                       !.ploidy = p2.ploidy,
                       !.indel_qphred = IF @ > h2.indel_qphred
                                        THEN h2.indel_qphred ELSE @]
        Merge(h1, h2) ==
            [s EXCEPT !.indel_buffer =
                <<add_indel_modifiers(s.opt,
                      Shared(h1, h2,
                             add_cigar_to_ploidy(h2.cigar,
                                 add_cigar_to_ploidy(h1.cigar, p0)))),
                  h2>>]
    IN IF crash THEN [s EXCEPT !.aborted = TRUE]
       ELSE Merge(overlap_hap(s, 1, u), overlap_hap(s, 2, u))

modify_overlap_indel_record(s, u) ==
    LET size == s.indel_end_pos - s.indel_buffer[1].pos
        p0 == [ploidy |-> [k \in 1..size |-> 0], oob |-> FALSE]
        crash == u = "abort" /\ (trail_wraps(s, 1) \/ trail_wraps(s, 2))
        Shared(h1, h2, p2) ==
            [h1 EXCEPT !.is_overlap = TRUE,
                       !.ploidy = p2.ploidy,
                       !.indel_qphred = IF @ > h2.indel_qphred
                                        THEN h2.indel_qphred ELSE @,
                       !.max_gt_qphred = IF @ > h2.max_gt_qphred
                                         THEN h2.max_gt_qphred ELSE @]
        Merge(h1, h2) ==
            [s EXCEPT !.indel_buffer =
                <<add_indel_modifiers(s.opt,
                      Shared(h1, h2,
                             add_cigar_to_ploidy(h2.cigar,
                                 add_cigar_to_ploidy(h1.cigar, p0)))),
                  h2>>]
    IN IF crash THEN [s EXCEPT !.aborted = TRUE]
       ELSE Merge(overlap_hap(s, 1, u), overlap_hap(s, 2, u))

modify_conflict_indel_record(s) ==
    [s EXCEPT !.indel_buffer =
        [i \in 1..Len(s.indel_buffer) |->
            LET ii == s.indel_buffer[i]
                c == [ii EXCEPT !.cigar = get_hap_cigar(ii, 1, 0),
                                !.filters = @ \cup {"IndelConflict"}]
            IN add_indel_modifiers(s.opt, c)]]

\* indel_info::get_ploidy: the per-position vector of an overlap record, the
\* genotype's own ploidy otherwise; -1 stands for its failed range assertion
get_ploidy(ii, offset) ==
    IF ~ii.is_overlap
    THEN (IF ii.max_gt = "HOM" THEN 0 ELSE IF ii.max_gt = "HET" THEN 1 ELSE 2)
    ELSE IF offset < Len(ii.ploidy) THEN ii.ploidy[offset + 1] ELSE -1

\* variant: at ploidy 1 the site keeps its own quality and genotype quality
modify_indel_overlap_site_noclamp(opt, ii, ploidy, si) ==
    LET Genotype(q) ==
            IF q.max_gt = "het"
            THEN [q EXCEPT !.filters = @ \cup {"SiteConflict"},
                           !.modified_gt = "UNKNOWN"]
            ELSE IF q.max_gt = "ref"
            THEN [q EXCEPT !.modified_gt = "ZERO"]
            ELSE [q EXCEPT !.modified_gt = "ONE"]
        Ploidy(f) ==
            IF ploidy = 1
            THEN Genotype(f)
            ELSE IF ploidy = 0
            THEN [f EXCEPT !.modified_gt = "UNKNOWN", !.is_zero_ploidy = TRUE]
            ELSE f
    IN set_site_filters(opt, Ploidy([si EXCEPT !.filters = @ \cap ii.filters]))

\* variant: the indel's filters are intersected after the ploidy changes
modify_indel_overlap_site_late(opt, ii, ploidy, si) ==
    LET Genotype(q) ==
            IF q.max_gt = "het"
            THEN [q EXCEPT !.filters = @ \cup {"SiteConflict"},
                           !.modified_gt = "UNKNOWN"]
            ELSE IF q.max_gt = "ref"
            THEN [q EXCEPT !.modified_gt = "ZERO"]
            ELSE [q EXCEPT !.modified_gt = "ONE"]
        Ploidy(f) ==
            IF ploidy = 1
            THEN Genotype([f EXCEPT !.snp_qphred = Min2(@, ii.indel_qphred),
                                    !.gqx = Min2(@, ii.max_gt_qphred)])
            ELSE IF ploidy = 0
            THEN [f EXCEPT !.modified_gt = "UNKNOWN", !.is_zero_ploidy = TRUE]
            ELSE f
        Inherit(f) == [f EXCEPT !.filters = @ \cap ii.filters]
    IN set_site_filters(opt, Inherit(Ploidy(si)))

\* the site as adjusted; assert(0) leaves the site as it stands at that point
modify_indel_overlap_site(opt, ii, ploidy, si) ==
    LET Genotype(q) ==
            IF q.max_gt = "het"
            THEN [q EXCEPT !.filters = @ \cup {"SiteConflict"},
                           !.modified_gt = "UNKNOWN"]
            ELSE IF q.max_gt = "ref"
            THEN [q EXCEPT !.modified_gt = "ZERO"]
            ELSE [q EXCEPT !.modified_gt = "ONE"]
        Ploidy(f) ==
            IF ploidy = 1
            THEN Genotype([f EXCEPT !.snp_qphred = Min2(@, ii.indel_qphred),
                                    !.gqx = Min2(@, ii.max_gt_qphred)])
            ELSE IF ploidy = 0
            THEN [f EXCEPT !.modified_gt = "UNKNOWN", !.is_zero_ploidy = TRUE]
            ELSE f
    IN set_site_filters(opt, Ploidy([si EXCEPT !.filters = @ \cap ii.filters]))

\* variant: the filter set is assigned instead of extended
modify_indel_conflict_site_assign(si) ==
    [si EXCEPT !.filters = {"IndelConflict"}]

modify_indel_conflict_site(si) ==
    [si EXCEPT !.filters = @ \cup {"IndelConflict"}]

\* one output line for the member at write_index (and, for an overlap
\* record, the member after it)
IndelRecord(s, write_index) ==
    LET ii == s.indel_buffer[write_index]
        end_index == IF ii.is_overlap THEN write_index + 1 ELSE write_index
        ms == SubSeq(s.indel_buffer, write_index, end_index)
    IN [type |-> "indel", start |-> ii.pos, pos |-> ii.pos,
        members |-> [i \in 1..Len(ms) |-> ms[i].id],
        alts |-> [i \in 1..Len(ms) |-> ms[i].alt],
        cigars |-> [i \in 1..Len(ms) |-> ms[i].cigar],
        qual |-> ii.indel_qphred, gqx |-> ii.gqx,
        filters |-> ii.filters, gt |-> ii.max_gt]

write_indel_record(s, write_index) ==
    LET Line(b) == [b EXCEPT !.out = Append(@, IndelRecord(b, write_index))]
    IN Line(write_block_site_record(s))

\* ------------------------------------------------------------- groups
\* the site loop of process_overlaps from buffer index i on: a negative
\* offset, a ploidy lookup out of range or a ploidy other than 0 and 1 trips
\* an assertion; fatal notes the lookup that tripped it
RECURSIVE adjust_sites(_, _, _)
adjust_sites(s, i, is_conflict_print) ==
    IF i > Len(s.site_buffer) THEN s
    ELSE LET si == s.site_buffer[i]
             offset == si.pos - s.indel_buffer[1].pos
             ploidy == get_ploidy(s.indel_buffer[1], offset)
             failed == [s EXCEPT
                          !.aborted = TRUE,
                          !.fatal = <<[offset |-> offset, pos |-> si.pos,
                                       size |-> Len(s.indel_buffer[1].ploidy),
                                       n |-> Len(s.indel_buffer),
                                       conflict |-> is_conflict_print]>>]
         IN IF offset < 0 THEN failed
            ELSE IF is_conflict_print
            THEN adjust_sites(
                    [s EXCEPT !.site_buffer[i] = modify_indel_conflict_site(si)],
                    i + 1, is_conflict_print)
            ELSE IF ploidy \notin {0, 1} THEN failed
            ELSE adjust_sites(
                    [s EXCEPT !.site_buffer[i] =
                        modify_indel_overlap_site(s.opt, s.indel_buffer[1], ploidy, si)],
                    i + 1, is_conflict_print)

\* variant: the merge compares the positions the wrong way round
RECURSIVE emit_group_swapped(_, _, _, _)
emit_group_swapped(s, indel_index, site_index, is_conflict_print) ==
    LET is_indel == indel_index <= Len(s.indel_buffer)
        is_site == site_index <= Len(s.site_buffer)
    IN IF ~(is_indel \/ is_site) THEN s
       ELSE IF is_indel
               /\ (~is_site
                   \/ s.indel_buffer[indel_index].pos > s.site_buffer[site_index].pos)
       THEN emit_group_swapped(write_indel_record(s, indel_index),
                       IF is_conflict_print THEN indel_index + 1
                       ELSE Len(s.indel_buffer) + 1,
                       site_index, is_conflict_print)
       ELSE emit_group_swapped(queue_site_record(s, s.site_buffer[site_index]),
                       indel_index, site_index + 1, is_conflict_print)

\* variant: the indel index always advances by one
RECURSIVE emit_group_each(_, _, _, _)
emit_group_each(s, indel_index, site_index, is_conflict_print) ==
    LET is_indel == indel_index <= Len(s.indel_buffer)
        is_site == site_index <= Len(s.site_buffer)
    IN IF ~(is_indel \/ is_site) THEN s
       ELSE IF is_indel
               /\ (~is_site
                   \/ s.indel_buffer[indel_index].pos <= s.site_buffer[site_index].pos)
       THEN emit_group_each(write_indel_record(s, indel_index),
                       indel_index + 1, site_index, is_conflict_print)
       ELSE emit_group_each(queue_site_record(s, s.site_buffer[site_index]),
                       indel_index, site_index + 1, is_conflict_print)

\* the merge loop of process_overlaps
RECURSIVE emit_group(_, _, _, _)
emit_group(s, indel_index, site_index, is_conflict_print) ==
    LET is_indel == indel_index <= Len(s.indel_buffer)
        is_site == site_index <= Len(s.site_buffer)
    IN IF ~(is_indel \/ is_site) THEN s
       ELSE IF is_indel
               /\ (~is_site
                   \/ s.indel_buffer[indel_index].pos <= s.site_buffer[site_index].pos)
       THEN emit_group(write_indel_record(s, indel_index),
                       IF is_conflict_print THEN indel_index + 1
                       ELSE Len(s.indel_buffer) + 1,
                       site_index, is_conflict_print)
       ELSE emit_group(queue_site_record(s, s.site_buffer[site_index]),
                       indel_index, site_index + 1, is_conflict_print)

\* groups logs every finalization that ran to its end: the buffers as they
\* stood on entry, the indels as modified, the sites as adjusted and the
\* stretch (lo, hi] of the output it wrote
process_overlaps(s, u) ==
    IF Len(s.indel_buffer) = 0 THEN s
    ELSE LET n == Len(s.indel_buffer)
             is_conflict_print == n # 1 /\ ~is_simple_indel_overlap(s.indel_buffer)
             Done(a, e) ==
                 [e EXCEPT
                    !.indel_buffer = <<>>,
                    !.site_buffer = <<>>,
                    !.groups = Append(@,
                        [indels |-> s.indel_buffer,
                         final |-> a.indel_buffer,
                         sites |-> s.site_buffer,
                         adjusted |-> a.site_buffer,
                         end_pos |-> s.indel_end_pos,
                         block |-> s.block,
                         conflict |-> is_conflict_print,
                         lo |-> Len(s.out), hi |-> Len(e.out)])]
             Emit(a) ==
                 IF a.aborted THEN a
                 ELSE Done(a, emit_group(a, 1, 1, is_conflict_print))
             Sites(m) ==
                 IF m.aborted THEN m
                 ELSE Emit(adjust_sites(
                        [m EXCEPT !.out = Append(@, [type |-> "INDEL_SIZE", size |-> n])],
                        1, is_conflict_print))
         IN Sites(IF n = 1 THEN modify_single_indel_record(s)
                  ELSE IF is_simple_indel_overlap(s.indel_buffer)
                  THEN modify_overlap_indel_record(s, u)
                  ELSE modify_conflict_indel_record(s))

\* ------------------------------------------------------------- cursor
\* an assignment to _head_pos; head_dec remembers whether one ever lowered
\* it. accepted is the position of the last call put in either buffer, ids
\* the indel calls put in the indel buffer so far.
set_head_pos(s, v) ==
    [s EXCEPT !.head_pos = v, !.head_dec = @ \/ v < s.head_pos]

add_site_internal(s, si, u) ==
    LET Queue(p) == IF p.aborted THEN p ELSE queue_site_record(p, si)
        Route(h) ==
            IF Len(h.indel_buffer) # 0
            THEN IF si.pos >= h.indel_end_pos
                 THEN Queue(process_overlaps(h, u))
                 ELSE [h EXCEPT !.site_buffer = Append(@, si), !.accepted = si.pos]
            ELSE queue_site_record(h, si)
    IN Route(set_head_pos(s, si.pos + 1))

\* skip records what the call under way did with each coordinate: the
\* synthesized sites it put in the site buffer, those it queued, and the
\* stretch it added to the block's run length; cursor is _head_pos as each
\* iteration of the loop left it
NewSkip(s, target) ==
    [from |-> s.head_pos, target |-> target, buffered |-> <<>>,
     queued |-> <<>>, ext |-> <<>>, iters |-> 0, cursor |-> <<>>,
     head_after |-> s.head_pos, block_end |-> -1]

\* where the cursor and the open block's span end when skip_to_pos returns
EndSkip(k) ==
    [k EXCEPT !.skip.head_after = k.head_pos,
              !.skip.block_end = IF k.block.count = 0 THEN -1
                                 ELSE k.block.record[1].pos + k.block.count]

\* the cursor as an iteration of skip_to_pos's loop leaves it
note_cursor(k) == [k EXCEPT !.skip.cursor = Append(@, k.head_pos)]

\* variant: the run length is extended from the synthesized site's own
\* position instead of from the cursor
RECURSIVE skip_to_pos_overrun(_, _, _)
skip_to_pos_overrun(s, target_pos, u) ==
    IF ~(s.head_pos < target_pos) THEN s
    ELSE LET pos == s.head_pos
             Noted(a, held) ==
                 [a EXCEPT !.skip.iters = @ + 1,
                           !.skip.cursor = IF held THEN Append(@, a.head_pos) ELSE @,
                           !.skip.buffered = IF held THEN Append(@, pos) ELSE @,
                           !.skip.queued = IF held THEN @ ELSE Append(@, pos)]
             Extend(k) ==
                 note_cursor(set_head_pos(
                     [k EXCEPT !.block.count = @ + (target_pos - pos),
                               !.skip.ext = Append(@,
                                   [from |-> k.head_pos,
                                    len |-> target_pos - pos])],
                     target_pos))
             Step(a) ==
                 IF a.aborted THEN a
                 ELSE IF Len(a.indel_buffer) # 0
                 THEN skip_to_pos_overrun(Noted(a, TRUE), target_pos, u)
                 ELSE IF a.block.count = 0 THEN [a EXCEPT !.aborted = TRUE]
                 ELSE skip_to_pos_overrun(Extend(Noted(a, FALSE)), target_pos, u)
         IN Step(add_site_internal(s, get_empty_site(s.opt, pos), u))

\* variant: one synthesized site per coordinate also when no group is pending
RECURSIVE skip_to_pos_persite(_, _, _)
skip_to_pos_persite(s, target_pos, u) ==
    IF ~(s.head_pos < target_pos) THEN s
    ELSE LET pos == s.head_pos
             Noted(a, held) ==
                 [a EXCEPT !.skip.iters = @ + 1,
                           !.skip.cursor = IF held THEN Append(@, a.head_pos) ELSE @,
                           !.skip.buffered = IF held THEN Append(@, pos) ELSE @,
                           !.skip.queued = IF held THEN @ ELSE Append(@, pos)]
             Step(a) ==
                 IF a.aborted THEN a
                 ELSE IF Len(a.indel_buffer) # 0
                 THEN skip_to_pos_persite(Noted(a, TRUE), target_pos, u)
                 ELSE IF a.block.count = 0 THEN [a EXCEPT !.aborted = TRUE]
                 ELSE skip_to_pos_persite(note_cursor(Noted(a, FALSE)), target_pos, u)
         IN Step(add_site_internal(s, get_empty_site(s.opt, pos), u))

\* variant: the extension stops one coordinate short of the target
RECURSIVE skip_to_pos_short(_, _, _)
skip_to_pos_short(s, target_pos, u) ==
    IF ~(s.head_pos < target_pos) THEN s
    ELSE LET pos == s.head_pos
             Noted(a, held) ==
                 [a EXCEPT !.skip.iters = @ + 1,
                           !.skip.cursor = IF held THEN Append(@, a.head_pos) ELSE @,
                           !.skip.buffered = IF held THEN Append(@, pos) ELSE @,
                           !.skip.queued = IF held THEN @ ELSE Append(@, pos)]
             Extend(k) ==
                 note_cursor(set_head_pos(
                     [k EXCEPT !.block.count = @ + (target_pos - 1 - k.head_pos),
                               !.skip.ext = Append(@,
                                   [from |-> k.head_pos,
                                    len |-> target_pos - 1 - k.head_pos])],
                     target_pos - 1))
             Step(a) ==
                 IF a.aborted THEN a
                 ELSE IF Len(a.indel_buffer) # 0
                 THEN skip_to_pos_short(Noted(a, TRUE), target_pos, u)
                 ELSE IF a.block.count = 0 THEN [a EXCEPT !.aborted = TRUE]
                 ELSE IF a.head_pos < target_pos
                 THEN skip_to_pos_short(Extend(Noted(a, FALSE)), target_pos, u)
                 ELSE skip_to_pos_short(note_cursor(Noted(a, FALSE)), target_pos, u)
         IN Step(add_site_internal(s, get_empty_site(s.opt, pos), u))

RECURSIVE skip_to_pos(_, _, _)
skip_to_pos(s, target_pos, u) ==
    IF ~(s.head_pos < target_pos) THEN s
    ELSE LET pos == s.head_pos
             Noted(a, held) ==
                 [a EXCEPT !.skip.iters = @ + 1,
                           !.skip.cursor = IF held THEN Append(@, a.head_pos) ELSE @,
                           !.skip.buffered = IF held THEN Append(@, pos) ELSE @,
                           !.skip.queued = IF held THEN @ ELSE Append(@, pos)]
             Extend(k) ==
                 note_cursor(set_head_pos(
                     [k EXCEPT !.block.count = @ + (target_pos - k.head_pos),
                               !.skip.ext = Append(@,
                                   [from |-> k.head_pos,
                                    len |-> target_pos - k.head_pos])],
                     target_pos))
             Step(a) ==
                 IF a.aborted THEN a
                 ELSE IF Len(a.indel_buffer) # 0
                 THEN skip_to_pos(Noted(a, TRUE), target_pos, u)
                 ELSE IF a.block.count = 0 THEN [a EXCEPT !.aborted = TRUE]
                 ELSE skip_to_pos(Extend(Noted(a, FALSE)), target_pos, u)
         IN Step(add_site_internal(s, get_empty_site(s.opt, pos), u))

\* a handler's call of skip_to_pos
call_skip_to_pos(s, target_pos, u) ==
    EndSkip(skip_to_pos([s EXCEPT !.skip = NewSkip(s, target_pos)], target_pos, u))

\* ------------------------------------------------------------- entry points
add_site(s, si, u) ==
    LET Rest(k) == IF k.aborted THEN k
                   ELSE add_site_internal(k, add_site_modifiers(k.opt, si), u)
    IN Rest(call_skip_to_pos(s, si.pos, u))

\* variant: the cursor is not advanced to the indel's position
add_indel_noskip(s, id, pos, ik, u) ==
    IF ik.is_breakpoint THEN s
    ELSE IF is_no_indel(ik) THEN s
    ELSE LET ii == indel_init(id, pos, ik)
             Store(g) ==
                 IF g.aborted THEN g
                 ELSE [g EXCEPT !.indel_buffer = Append(@, ii),
                                !.indel_end_pos = right_pos(ii),
                                !.accepted = pos,
                                !.ids = @ \cup {id}]
             Group(k) ==
                 IF k.aborted THEN k
                 ELSE Store(IF Len(k.indel_buffer) # 0
                            THEN IF pos <= k.indel_end_pos
                                 THEN [k EXCEPT !.indel_end_pos = Max2(@, right_pos(ii))]
                                 ELSE process_overlaps(k, u)
                            ELSE k)
         IN Group(s)

\* variant: the cursor is advanced before the no-indel genotype is tested
add_indel_skipfirst(s, id, pos, ik, u) ==
    IF ik.is_breakpoint THEN s
    ELSE LET ii == indel_init(id, pos, ik)
             Store(g) ==
                 IF g.aborted \/ is_no_indel(ik) THEN g
                 ELSE [g EXCEPT !.indel_buffer = Append(@, ii),
                                !.indel_end_pos = right_pos(ii),
                                !.accepted = pos,
                                !.ids = @ \cup {id}]
             Group(k) ==
                 IF k.aborted THEN k
                 ELSE Store(IF Len(k.indel_buffer) # 0
                            THEN IF pos <= k.indel_end_pos
                                 THEN [k EXCEPT !.indel_end_pos = Max2(@, right_pos(ii))]
                                 ELSE process_overlaps(k, u)
                            ELSE k)
         IN Group(call_skip_to_pos(s, pos, u))

add_indel(s, id, pos, ik, u) ==
    IF ik.is_breakpoint THEN s
    ELSE IF is_no_indel(ik) THEN s
    ELSE LET ii == indel_init(id, pos, ik)
             Store(g) ==
                 IF g.aborted THEN g
                 ELSE [g EXCEPT !.indel_buffer = Append(@, ii),
                                !.indel_end_pos = right_pos(ii),
                                !.accepted = pos,
                                !.ids = @ \cup {id}]
             Group(k) ==
                 IF k.aborted THEN k
                 ELSE Store(IF Len(k.indel_buffer) # 0
                            THEN IF pos <= k.indel_end_pos
                                 THEN [k EXCEPT !.indel_end_pos = Max2(@, right_pos(ii))]
                                 ELSE process_overlaps(k, u)
                            ELSE k)
         IN Group(call_skip_to_pos(s, pos, u))

\* ~gvcf_aggregator, the report range ending at EndPos
destructor(s, u) ==
    LET Rest(k) == IF k.aborted THEN k ELSE process_overlaps(k, u)
    IN Rest(call_skip_to_pos(s, EndPos + 1, u))

\* ------------------------------------------------------------- state
VARIABLES
    opt,            \* _opt
    head_pos,       \* _head_pos
    indel_end_pos,  \* _indel_end_pos
    indel_buffer,   \* _indel_buffer[0 .. _indel_buffer_size)
    site_buffer,    \* _site_buffer[0 .. _site_buffer_size)
    block,          \* _block
    out,            \* the lines written to *_osptr
    aborted,        \* an assertion failed or the run crashed
    hist            \* history: what the calls so far were and did

vars == <<opt, head_pos, indel_end_pos, indel_buffer, site_buffer, block, out,
          aborted, hist>>

prog == <<opt, head_pos, indel_end_pos, indel_buffer, site_buffer, block, out,
          aborted>>

\* the aggregator as the operators see it
Cur ==
    [opt |-> opt, head_pos |-> head_pos, indel_end_pos |-> indel_end_pos,
     indel_buffer |-> indel_buffer, site_buffer |-> site_buffer,
     block |-> block, out |-> out, aborted |-> aborted,
     head_dec |-> hist.head_dec, accepted |-> hist.accepted,
     groups |-> hist.groups, skip |-> hist.skip, fatal |-> hist.fatal,
     ids |-> hist.ids]

\* the outcomes to draw from: more than one only when the pending group is a
\* two-het overlap whose first member reaches past the right-bound
UBChoices(s) ==
    IF is_simple_indel_overlap(s.indel_buffer)
       /\ (trail_wraps(s, 1) \/ trail_wraps(s, 2))
    THEN UBOutcomes ELSE {"trail0"}

Init ==
    /\ opt \in Opts
    /\ head_pos = 0
    /\ indel_end_pos = 0
    /\ indel_buffer = <<>>
    /\ site_buffer = <<>>
    /\ block = EmptyBlock
    /\ out = <<>>
    /\ aborted = FALSE
    /\ hist = [head_dec |-> FALSE, accepted |-> -1, groups |-> <<>>,
               fatal |-> <<>>, ids |-> {},
               skip |-> [from |-> 0, target |-> 0, buffered |-> <<>>,
                         queued |-> <<>>, ext |-> <<>>, iters |-> 0,
                         cursor |-> <<>>,
                         head_after |-> 0, block_end |-> -1],
               ncalls |-> 0, last_site_pos |-> -1, last_indel_pos |-> -1,
               mono |-> TRUE, strict |-> TRUE,
               last_call |-> [op |-> "none", pos |-> 0, rejected |-> FALSE],
               finalized |-> FALSE, pre |-> <<>>]

\* the state a handler leaves becomes the next state
Commit(r) ==
    /\ opt' = r.opt
    /\ head_pos' = r.head_pos
    /\ indel_end_pos' = r.indel_end_pos
    /\ indel_buffer' = r.indel_buffer
    /\ site_buffer' = r.site_buffer
    /\ block' = r.block
    /\ out' = r.out
    /\ aborted' = r.aborted

Called(r, op, pos, rejected) ==
    LET last == Max2(hist.last_site_pos, hist.last_indel_pos)
    IN hist' = [hist EXCEPT
                  !.head_dec = r.head_dec,
                  !.accepted = r.accepted,
                  !.groups = r.groups,
                  !.skip = r.skip,
                  !.fatal = r.fatal, !.ids = r.ids,
                  !.ncalls = @ + 1,
                  !.last_site_pos = IF op = "add_site" THEN pos ELSE @,
                  !.last_indel_pos = IF op = "add_indel" THEN pos ELSE @,
                  !.mono = @ /\ pos >= last,
                  !.strict = @ /\ pos > last,
                  !.last_call = [op |-> op, pos |-> pos, rejected |-> rejected]]

Live == ~aborted /\ ~hist.finalized

\* add_site(si): the site stream is in non-decreasing position order
AddSite ==
    \E pos \in Positions, kind \in SiteKinds :
        \E u \in UBChoices(Cur) :
            /\ Live
            /\ hist.ncalls < MaxCalls
            /\ pos >= hist.last_site_pos
            /\ LET Do(r) == Commit(r) /\ Called(r, "add_site", pos, FALSE)
               IN Do(add_site(Cur, [pos |-> pos, synth |-> FALSE] @@ kind, u))

\* add_indel(pos, ik, dindel, iri, isri): the indel stream is in
\* non-decreasing position order
AddIndel ==
    \E pos \in Positions, ik \in IndelKinds :
        \E u \in UBChoices(Cur) :
            /\ Live
            /\ hist.ncalls < MaxCalls
            /\ pos >= hist.last_indel_pos
            /\ LET Do(r) ==
                       /\ Commit(r)
                       /\ Called(r, "add_indel", pos,
                                 ik.is_breakpoint \/ is_no_indel(ik))
               IN Do(add_indel(Cur, hist.ncalls + 1, pos, ik, u))

\* the aggregator is destroyed
Finalize ==
    \E u \in UBChoices(Cur) :
        /\ Live
        /\ LET Do(r) ==
                   /\ Commit(r)
                   /\ hist' = [hist EXCEPT
                                 !.head_dec = r.head_dec,
                                 !.accepted = r.accepted,
                                 !.groups = r.groups,
                                 !.skip = r.skip,
                                 !.fatal = r.fatal, !.ids = r.ids,
                                 !.last_call = [op |-> "destructor",
                                                pos |-> EndPos + 1,
                                                rejected |-> FALSE],
                                 !.finalized = TRUE,
                                 !.pre = <<[indel_buffer |-> indel_buffer,
                                            site_buffer |-> site_buffer,
                                            block |-> block,
                                            head_pos |-> head_pos,
                                            out_len |-> Len(out)]>>]
           IN Do(destructor(Cur, u))

Next == AddSite \/ AddIndel \/ Finalize

Spec == Init /\ [][Next]_vars

\* ------------------------------------------------------------- properties
\* the records of the output stream, in the order written
Recs == SelectSeq(out, LAMBDA r : r.type # "INDEL_SIZE")

IndelRecs(lo, hi) ==
    SelectSeq(SubSeq(out, lo + 1, hi), LAMBDA r : r.type = "indel")

Ordered(rs) == \A i \in 1..(Len(rs) - 1) : rs[i].start <= rs[i + 1].start

\* C1: when every call is at a position beyond the call before it, no record
\* is written with a start position (POS) smaller than that of a record
\* written before it, up to and including finalization.
C1_OutputOrdered == hist.strict => Ordered(Recs)

C1_Witness ==
    /\ hist.strict /\ hist.finalized /\ ~aborted
    /\ \E i, j, k \in 1..Len(Recs) :
          /\ i < j /\ j < k
          /\ Recs[i].type = "block"
          /\ Recs[j].type = "indel"
          /\ Recs[k].type = "site"

\* the same with ties allowed between consecutive calls (a site and then an
\* indel at one position)
C1_OrderedUnderTies == hist.mono => Ordered(Recs)

\* number of site and block records whose span holds coordinate c
Cover(c) ==
    Cardinality({i \in 1..Len(Recs) :
                    /\ Recs[i].type \in {"site", "block"}
                    /\ Recs[i].pos <= c
                    /\ c < Recs[i].pos + Recs[i].len})

\* C2: after in-order input and finalization every coordinate of the report
\* range is covered by exactly one emitted site or block record.
C2_Partition ==
    (hist.finalized /\ ~aborted /\ hist.strict)
        => \A c \in Positions : Cover(c) = 1

RECURSIVE MaxRight(_)
MaxRight(buf) ==
    IF Len(buf) = 1 THEN right_pos(buf[1])
    ELSE Max2(right_pos(buf[1]), MaxRight(Tail(buf)))

\* C3: whenever the indel buffer is non-empty its right-bound is the largest
\* right boundary of the indels in it.
C3_EndIsMaxRight ==
    indel_buffer # <<>> => indel_end_pos = MaxRight(indel_buffer)

\* C4: between calls, arriving in position order, every buffered site lies at
\* or after the first buffered indel and before the right-bound, and the site
\* buffer is empty whenever the indel buffer is.
C4_SitesInsideGroup ==
    hist.mono =>
        /\ indel_buffer = <<>> => site_buffer = <<>>
        /\ \A i \in 1..Len(site_buffer) :
              /\ site_buffer[i].pos >= indel_buffer[1].pos
              /\ site_buffer[i].pos < indel_end_pos

\* C5 as claimed: with each stream in position order on its own, the cursor
\* never decreases and is at or past the last call accepted into a buffer.
C5_CursorPerStream ==
    /\ ~hist.head_dec
    /\ hist.accepted >= 0 => head_pos >= hist.accepted

\* C5, amended: when the calls of both streams taken together arrive in
\* non-decreasing position order, the cursor never decreases and is at or
\* past the last call accepted into a buffer.
C5_CursorInOrder == hist.mono => C5_CursorPerStream

C5_Witness ==
    /\ hist.mono /\ ~hist.strict
    /\ hist.accepted >= 0
    /\ head_pos > hist.accepted
    /\ site_buffer # <<>>
    /\ Len(indel_buffer) >= 2

Occ(seq, c) == Cardinality({i \in 1..Len(seq) : seq[i] = c})

ExtOcc(ext, c) ==
    Cardinality({i \in 1..Len(ext) :
                    ext[i].from <= c /\ c < ext[i].from + ext[i].len})

RanSkip == ~aborted /\ hist.last_call.op # "none" /\ ~hist.last_call.rejected

\* C6: when skip_to_pos(target) has returned the cursor is at or past target
\* and every coordinate from the cursor before the call up to target - 1 was
\* accounted for exactly once: as a synthesized site put in the site buffer,
\* as a synthesized site queued to the block compressor, or inside the run
\* length added to the block that site joined, which then ends at target.
C6_SkipAccounts ==
    RanSkip =>
        LET sk == hist.skip IN
        /\ sk.head_after >= sk.target
        /\ \A c \in sk.from..(sk.target - 1) :
              Occ(sk.buffered, c) + Occ(sk.queued, c) + ExtOcc(sk.ext, c) = 1
        /\ sk.ext # <<>> => sk.block_end = sk.target

C6_Witness ==
    /\ RanSkip
    /\ hist.skip.buffered # <<>>
    /\ hist.skip.queued # <<>>
    /\ \E i \in 1..Len(hist.skip.ext) : hist.skip.ext[i].len > 0

\* C7: an add_indel call with a breakpoint key or the no-indel genotype
\* changes nothing: cursor, buffers, right-bound, block and output stay.
C7_RejectedIsNoOp ==
    [][(/\ hist'.ncalls = hist.ncalls + 1
        /\ hist'.last_call.op = "add_indel"
        /\ hist'.last_call.rejected) => UNCHANGED prog]_vars

C7_Witness ==
    /\ hist.last_call.op = "add_indel"
    /\ hist.last_call.rejected
    /\ indel_buffer # <<>>
    /\ block.count > 0
    /\ head_pos < hist.last_call.pos

\* C8: finalization from a state with a pending indel group and an open
\* block leaves both buffers and the block accumulator empty, with the
\* group's records and the open block's record written.
C8_FinalizeEmitsAll ==
    (/\ hist.finalized /\ ~aborted
     /\ hist.pre[1].indel_buffer # <<>>
     /\ hist.pre[1].block.count > 0)
    => LET pre == hist.pre[1]
           new == SubSeq(out, pre.out_len + 1, Len(out))
       IN /\ indel_buffer = <<>>
          /\ site_buffer = <<>>
          /\ block.count = 0
          /\ \A i \in 1..Len(pre.indel_buffer) :
                \E j \in 1..Len(new) :
                    /\ new[j].type = "indel"
                    /\ \E m \in 1..Len(new[j].members) :
                          new[j].members[m] = pre.indel_buffer[i].id
          /\ \E j \in 1..Len(new) :
                /\ new[j].type = "block"
                /\ new[j].pos = pre.block.record[1].pos

TwoHets(g) ==
    /\ Len(g.indels) = 2
    /\ g.indels[1].max_gt = "HET"
    /\ g.indels[2].max_gt = "HET"

\* C9: a finalized group of exactly two heterozygous indels is written as
\* one indel record that lists both members' alleles and both CIGARs; its
\* indel quality is the smaller of the two indel qualities, its genotype
\* quality the smaller of the two genotype qualities, its GQX the smaller of
\* these two.
C9_TwoHetsOneRecord ==
    \A gi \in 1..Len(hist.groups) :
        LET g == hist.groups[gi]
            rs == IndelRecs(g.lo, g.hi)
            iq == Min2(g.indels[1].indel_qphred, g.indels[2].indel_qphred)
            gq == Min2(g.indels[1].max_gt_qphred, g.indels[2].max_gt_qphred)
        IN TwoHets(g) =>
            /\ Len(rs) = 1
            /\ rs[1].members = <<g.indels[1].id, g.indels[2].id>>
            /\ Len(rs[1].alts) = 2 /\ Len(rs[1].cigars) = 2
            /\ \A i \in 1..2 :
                  /\ rs[1].alts[i].allele = g.indels[i].allele
                  /\ rs[1].cigars[i] # <<>>
            /\ rs[1].qual = iq
            /\ g.final[1].max_gt_qphred = gq
            /\ rs[1].gqx = Min2(iq, gq)

C9_Witness ==
    \E gi \in 1..Len(hist.groups) :
        LET g == hist.groups[gi] IN
        /\ TwoHets(g)
        /\ g.indels[1].indel_qphred < g.indels[2].indel_qphred
        /\ g.indels[1].max_gt_qphred > g.indels[2].max_gt_qphred
        /\ g.sites # <<>>

Conflicting(g) ==
    \/ Len(g.indels) >= 3
    \/ Len(g.indels) = 2 /\ ~TwoHets(g)

\* C10: a finalized group of three or more members, or of two members not
\* both heterozygous, is written as one record per member, each record
\* holding that member alone and carrying the indel-conflict filter.
C10_ConflictSeparate ==
    \A gi \in 1..Len(hist.groups) :
        LET g == hist.groups[gi]
            rs == IndelRecs(g.lo, g.hi)
        IN Conflicting(g) =>
            /\ Len(rs) = Len(g.indels)
            /\ \A i \in 1..Len(rs) :
                  /\ rs[i].members = <<g.indels[i].id>>
                  /\ Len(rs[i].alts) = 1 /\ Len(rs[i].cigars) = 1
                  /\ "IndelConflict" \in rs[i].filters

C10_Witness ==
    \E gi \in 1..Len(hist.groups) :
        LET g == hist.groups[gi] IN
        /\ Len(g.indels) = 3
        /\ g.indels[1].max_gt = "HET"
        /\ g.indels[2].max_gt = "HET"
        /\ g.indels[3].max_gt = "HOM"

C10_WitnessPair ==
    \E gi \in 1..Len(hist.groups) :
        LET g == hist.groups[gi] IN
        /\ Len(g.indels) = 2
        /\ ~TwoHets(g)
        /\ g.sites # <<>>

\* the ploidy process_overlaps looked up for the site at index i of group g
SitePloidy(g, i) == get_ploidy(g.final[1], g.sites[i].pos - g.final[1].pos)

\* the records of group g's stretch of the output written for position pos
SiteRecsAt(g, pos) ==
    SelectSeq(SubSeq(out, g.lo + 1, g.hi),
              LAMBDA r : r.type = "site" /\ r.pos = pos)

\* C11: in a finalized non-conflict group a buffered site whose looked-up
\* ploidy is 1 leaves the adjustment with quality and genotype quality no
\* larger than the (merged) indel's; if its genotype is heterozygous its
\* output genotype is unknown and it carries the site-conflict filter,
\* otherwise its output genotype is 0 for the reference genotype and 1 for any
\* other; a site written as a record of its own shows the same values.
C11_PloidyOneSite ==
    \A gi \in 1..Len(hist.groups) :
        LET g == hist.groups[gi] IN
        ~g.conflict =>
            \A i \in 1..Len(g.sites) :
                LET before == g.sites[i]
                    after == g.adjusted[i]
                    ii == g.final[1]
                    rs == SiteRecsAt(g, before.pos)
                    gt == IF before.max_gt = "het" THEN "UNKNOWN"
                          ELSE IF before.max_gt = "ref" THEN "ZERO" ELSE "ONE"
                IN SitePloidy(g, i) = 1 =>
                    /\ after.snp_qphred <= ii.indel_qphred
                    /\ after.snp_qphred <= before.snp_qphred
                    /\ after.gqx <= ii.max_gt_qphred
                    /\ after.gqx <= before.gqx
                    /\ after.modified_gt = gt
                    /\ before.max_gt = "het" => "SiteConflict" \in after.filters
                    /\ ~is_site_record_blockable(opt, before) =>
                          \E j \in 1..Len(rs) :
                              /\ rs[j] = SiteRecord(after)
                              /\ rs[j].modified_gt = gt

\* a two-het group holding a heterozygous site whose quality was clamped
C11_Witness ==
    \E gi \in 1..Len(hist.groups) :
        LET g == hist.groups[gi] IN
        /\ TwoHets(g)
        /\ \E i \in 1..Len(g.sites) :
              /\ SitePloidy(g, i) = 1
              /\ g.sites[i].max_gt = "het"
              /\ g.adjusted[i].snp_qphred < g.sites[i].snp_qphred
              /\ g.adjusted[i].modified_gt = "UNKNOWN"

\* a group holding a reference site and a homozygous variant site at ploidy 1
C11_WitnessNonHet ==
    \E gi \in 1..Len(hist.groups) :
        LET g == hist.groups[gi] IN
        /\ ~g.conflict
        /\ \E i, j \in 1..Len(g.sites) :
              /\ SitePloidy(g, i) = 1
              /\ ~g.sites[i].synth
              /\ g.sites[i].max_gt = "ref"
              /\ g.adjusted[i].modified_gt = "ZERO"
              /\ g.adjusted[i].gqx < g.sites[i].gqx
              /\ SitePloidy(g, j) = 1
              /\ g.sites[j].max_gt = "hom"
              /\ g.adjusted[j].modified_gt = "ONE"

LoneHet(g) == Len(g.indels) = 1 /\ g.indels[1].max_gt = "HET"

\* C12: a heterozygous indel at position P finalized as a group of its own is
\* written as exactly one indel record at P, holding that indel alone, with
\* GQX the smaller of its indel quality and genotype quality, without the
\* indel-conflict filter, and with a CIGAR of one match of length 1, then a
\* delete segment with the key's delete length (if not zero), then an insert
\* segment with the key's insert length (if not zero), and nothing after.
C12_LoneHetRecord ==
    \A gi \in 1..Len(hist.groups) :
        LET g == hist.groups[gi]
            ik == g.indels[1]
            rs == IndelRecs(g.lo, g.hi)
        IN LoneHet(g) =>
            /\ Len(rs) = 1
            /\ rs[1].start = ik.pos
            /\ rs[1].members = <<ik.id>>
            /\ rs[1].gt = "HET"
            /\ rs[1].gqx = Min2(ik.indel_qphred, ik.max_gt_qphred)
            /\ "IndelConflict" \notin rs[1].filters
            /\ rs[1].cigars =
                  << <<Seg("MATCH", 1)>>
                     \o (IF ik.delete_length # 0
                         THEN <<Seg("DELETE", ik.delete_length)>> ELSE <<>>)
                     \o (IF ik.insert_length # 0
                         THEN <<Seg("INSERT", ik.insert_length)>> ELSE <<>>) >>
            /\ Len(rs[1].cigars[1]) \in {2, 3}

\* a lone deletion with buffered sites and a lone insertion, both written
C12_Witness ==
    \E gi, gj \in 1..Len(hist.groups) :
        LET g == hist.groups[gi]
            h == hist.groups[gj]
        IN /\ LoneHet(g) /\ g.indels[1].delete_length > 0 /\ g.sites # <<>>
           /\ g.indels[1].indel_qphred > g.indels[1].max_gt_qphred
           /\ LoneHet(h) /\ h.indels[1].insert_length > 0
           /\ h.indels[1].indel_qphred < h.indels[1].max_gt_qphred


\* C13: queueing a non-blockable site flushes the open block and writes the
\* site as a record of its own, and the site is not joined to the block: the
\* open block never starts with a non-blockable site and, with every call at
\* a position of its own, no block record spans a position that a site record
\* was written for.
C13_NonBlockableNotJoined ==
    hist.strict =>
        /\ block.count > 0 => is_site_record_blockable(opt, block.record[1])
        /\ \A i, j \in 1..Len(Recs) :
              (Recs[i].type = "site" /\ Recs[j].type = "block")
                  => ~(/\ Recs[j].pos <= Recs[i].pos
                       /\ Recs[i].pos < Recs[j].pos + Recs[j].len)


\* C14: a call of skip_to_pos(target) synthesizes one empty site per
\* coordinate, from the cursor on, for as long as an indel group is pending
\* (these go to the site buffer); once no group is pending, or the pending
\* group has been resolved by the site just synthesized, it synthesizes
\* exactly one site, queued to the block compressor, and adds the rest of the
\* gap to the run length of the block that site joined: that block then ends
\* at target and the cursor is target.
C14_SkipSynthesis ==
    RanSkip =>
        LET sk == hist.skip
            nb == Len(sk.buffered)
        IN /\ \A i \in 1..nb : sk.buffered[i] = sk.from + i - 1
           /\ Len(sk.queued) <= 1
           /\ sk.iters = nb + Len(sk.queued)
           /\ sk.queued # <<>> =>
                 /\ sk.queued[1] = sk.from + nb
                 /\ sk.ext = <<[from |-> sk.queued[1] + 1,
                                len |-> sk.target - sk.queued[1] - 1]>>
                 /\ sk.block_end = sk.target
                 /\ sk.head_after = sk.target
           /\ (sk.queued = <<>> /\ sk.from < sk.target) =>
                 /\ nb = sk.target - sk.from
                 /\ sk.ext = <<>>
                 /\ sk.head_after = sk.target

\* the destructor's call: a site per coordinate while the group is pending,
\* then one site that resolves it and takes the rest of the gap
C14_Witness ==
    /\ RanSkip
    /\ hist.last_call.op = "destructor"
    /\ Len(hist.skip.buffered) >= 1
    /\ Len(hist.skip.queued) = 1
    /\ hist.skip.ext[1].len >= 1

\* no group pending and a gap of three coordinates
C14_WitnessNoGroup ==
    /\ RanSkip
    /\ hist.skip.buffered = <<>>
    /\ Len(hist.skip.queued) = 1
    /\ hist.skip.ext[1].len = 2


\* C15: when a group finalizes on the conflict path every buffered site gains
\* the indel-conflict filter and is otherwise as it was buffered: genotype,
\* output genotype, quality, genotype quality and earlier filters stay; a
\* site written as a record of its own shows exactly that.
C15_ConflictSiteFrame ==
    \A gi \in 1..Len(hist.groups) :
        LET g == hist.groups[gi] IN
        g.conflict =>
            /\ Len(g.adjusted) = Len(g.sites)
            /\ \A i \in 1..Len(g.sites) :
                  LET before == g.sites[i]
                      after == g.adjusted[i]
                      rs == SiteRecsAt(g, before.pos)
                  IN /\ after = [before EXCEPT
                                    !.filters = before.filters \cup {"IndelConflict"}]
                     /\ ~is_site_record_blockable(opt, before) =>
                           \E j \in 1..Len(rs) :
                               /\ rs[j].gt = before.max_gt
                               /\ rs[j].modified_gt = before.modified_gt
                               /\ rs[j].qual = before.snp_qphred
                               /\ rs[j].gqx = before.gqx
                               /\ rs[j].filters = before.filters \cup {"IndelConflict"}

\* a conflict group holding a site that already carried filters and one
\* holding a heterozygous site
C15_Witness ==
    /\ \E gi \in 1..Len(hist.groups) :
          LET g == hist.groups[gi] IN
          /\ g.conflict
          /\ \E i \in 1..Len(g.sites) : g.sites[i].filters # {}
    /\ \E gi \in 1..Len(hist.groups) :
          LET g == hist.groups[gi] IN
          /\ g.conflict
          /\ \E i \in 1..Len(g.sites) : g.sites[i].max_gt = "het"


C16_WitnessConflict ==
    \E gi \in 1..Len(hist.groups) :
        LET g == hist.groups[gi] IN
        /\ ~g.conflict
        /\ g.final[1].filters # {}
        /\ \E i \in 1..Len(g.sites) : g.adjusted[i].filters = {"SiteConflict"}

\* C17: with the calls arriving in position order, no site buffered under a
\* non-conflict group (one member, or two heterozygous members) trips the
\* ploidy assertions when the group finalizes: its offset from the first
\* member is not negative, lies inside the ploidy vector, and the ploidy
\* there is 0 or 1.
C17_PloidyInRange ==
    hist.mono => \A k \in 1..Len(hist.fatal) : hist.fatal[k].conflict


\* C18: every line in the output stream is a site, block or indel record;
\* finalizing an indel group writes only that group's indel records and the
\* site and block records it releases.
C18_OnlyRecords ==
    \A i \in 1..Len(out) : out[i].type \in {"site", "block", "indel"}


\* how often indel call id is listed in an indel record of the output
Emitted(id) ==
    Cardinality({im \in (1..Len(out)) \X (1..2) :
                    /\ out[im[1]].type = "indel"
                    /\ im[2] <= Len(out[im[1]].members)
                    /\ out[im[1]].members[im[2]] = id})

Pending(id) ==
    Cardinality({i \in 1..Len(indel_buffer) : indel_buffer[i].id = id})

\* C19: as long as no assertion has failed, every indel call accepted into
\* the indel buffer is either still in the buffer or listed in exactly one
\* indel record, once; a finalization that ran to its end leaves the indel
\* buffer and the site buffer empty, so every accepted call is then written
\* exactly once.
C19_IndelsOnce ==
    ~aborted =>
        /\ \A id \in hist.ids : Emitted(id) + Pending(id) = 1
        /\ hist.finalized =>
              /\ indel_buffer = <<>> /\ site_buffer = <<>>
              /\ \A id \in hist.ids : Emitted(id) = 1
        /\ indel_buffer = <<>> => site_buffer = <<>>

\* three accepted calls, one written alone and two as one combined record,
\* the pair by the destructor
C19_Witness ==
    /\ hist.finalized /\ ~aborted
    /\ Cardinality(hist.ids) = 3
    /\ Len(hist.pre[1].indel_buffer) = 2
    /\ hist.pre[1].site_buffer # <<>>
    /\ \E i, j \in 1..Len(out) :
          /\ out[i].type = "indel" /\ Len(out[i].members) = 1
          /\ out[j].type = "indel" /\ Len(out[j].members) = 2


\* C20: a call of skip_to_pos(target) ends after at most target - cursor
\* iterations of its loop (none when the cursor is at or past target): every
\* iteration leaves the cursor larger than it found it, by exactly 1 when an
\* indel group is still pending after it and at target otherwise, the
\* iteration that resolves a pending group included.
C20_SkipTerminates ==
    RanSkip =>
        LET sk == hist.skip
            n == Len(sk.cursor)
            Prev(i) == IF i = 1 THEN sk.from ELSE sk.cursor[i - 1]
        IN /\ sk.iters = n
           /\ n <= Max2(0, sk.target - sk.from)
           /\ \A i \in 1..n :
                 /\ sk.cursor[i] > Prev(i)
                 /\ Prev(i) < sk.target
                 /\ IF i <= Len(sk.buffered)
                    THEN sk.cursor[i] = Prev(i) + 1
                    ELSE sk.cursor[i] = sk.target
           /\ sk.head_after = (IF n = 0 THEN sk.from ELSE sk.cursor[n])
           /\ sk.head_after >= sk.target

\* as many iterations as coordinates: two with the group pending, the third
\* resolving it
C20_Witness ==
    /\ RanSkip
    /\ hist.skip.iters = 3
    /\ hist.skip.target - hist.skip.from = 3
    /\ Len(hist.skip.buffered) = 2
    /\ Len(hist.groups) > 0

\* the cursor already past the target: no iteration
C20_WitnessNoLoop ==
    /\ RanSkip
    /\ hist.skip.from > hist.skip.target
    /\ hist.skip.iters = 0


====
